---------------------------- MODULE Spec2Model ----------------------------
(***************************************************************************)
(* Model of pottery_glazing_mcp: GlazeChemistryProcessor                   *)
(* (glaze_processor.py) and the listing tools of server.py.                *)
(*                                                                         *)
(* Representation of Python values:                                        *)
(*  - a str is a sequence of one-character strings, so that lower() and    *)
(*    capitalize() are computed letter by letter;                          *)
(*  - an argument is a record [type, val]; type is "str", "int", "float"   *)
(*    or "NoneType", so that the operations that raise on a wrongly typed  *)
(*    argument can be followed;                                            *)
(*  - a float is an integer number of tenths (8.5 is 85); a product keeps  *)
(*    its scale as an explicit denominator;                                *)
(*  - text built by an f-string is the sequence of its fragments; text     *)
(*    taken verbatim from a table is a string.                             *)
(*  - a call returns [raised |-> FALSE, value |-> v] or                    *)
(*    [raised |-> TRUE, exc |-> class name of the exception,               *)
(*     msg |-> str(exception), as fragments].                              *)
(***************************************************************************)
EXTENDS Integers, Sequences, FiniteSets, TLC

VARIABLES olog, pc, call, result, callers, frames

vars == <<olog, pc, call, result, callers, frames>>

----------------------------------------------------------------------------
(* Python values *)

PyStr(s) == [type |-> "str", val |-> s]
PyInt(n) == [type |-> "int", val |-> n]
PyFloat(n) == [type |-> "float", val |-> n]
PyNone == [type |-> "NoneType", val |-> <<>>]

Ok(v) == [raised |-> FALSE, value |-> v]
Raise(e, msg) == [raised |-> TRUE, exc |-> e, msg |-> msg]

(* x.lower() on a value that is no str *)
AttributeError(x) ==
    Raise("AttributeError", <<"'", x.type, "' object has no attribute 'lower'">>)

(* x <= 2 on a value that is no number *)
TypeErrorLe(x) ==
    Raise("TypeError",
          <<"'<=' not supported between instances of '", x.type, "' and 'int'">>)

(* x / 8.0 on a value that is no number *)
TypeErrorDiv(x) ==
    Raise("TypeError",
          <<"unsupported operand type(s) for /: '", x.type, "' and 'float'">>)

IsNumber(x) == x.type \in {"int", "float"}

(* str.lower() and str.capitalize() on ASCII letters *)
UpperChars == <<"A","B","C","D","E","F","G","H","I","J","K","L","M",
                "N","O","P","Q","R","S","T","U","V","W","X","Y","Z">>
LowerChars == <<"a","b","c","d","e","f","g","h","i","j","k","l","m",
                "n","o","p","q","r","s","t","u","v","w","x","y","z">>

ToLower == [c \in {UpperChars[i] : i \in DOMAIN UpperChars} |->
               LowerChars[CHOOSE i \in DOMAIN UpperChars : UpperChars[i] = c]]
ToUpper == [c \in {LowerChars[i] : i \in DOMAIN LowerChars} |->
               UpperChars[CHOOSE i \in DOMAIN LowerChars : LowerChars[i] = c]]

LowerChar(c) == IF c \in DOMAIN ToLower THEN ToLower[c] ELSE c

UpperChar(c) == IF c \in DOMAIN ToUpper THEN ToUpper[c] ELSE c

lower(s) == [i \in DOMAIN s |-> LowerChar(s[i])]

capitalize(s) ==
    [i \in DOMAIN s |-> IF i = 1 THEN UpperChar(s[i]) ELSE LowerChar(s[i])]

----------------------------------------------------------------------------
(* The keys of the lookup tables *)

k_iron == <<"i","r","o","n">>
k_cobalt == <<"c","o","b","a","l","t">>
k_copper == <<"c","o","p","p","e","r">>
k_chrome == <<"c","h","r","o","m","e">>
k_manganese == <<"m","a","n","g","a","n","e","s","e">>
k_vanadium == <<"v","a","n","a","d","i","u","m">>

k_boron == <<"b","o","r","o","n">>
k_alkaline == <<"a","l","k","a","l","i","n","e">>
k_alkaline_earth == <<"a","l","k","a","l","i","n","e","_","e","a","r","t","h">>
k_lead == <<"l","e","a","d">>

k_reduction == <<"r","e","d","u","c","t","i","o","n">>
k_oxidation == <<"o","x","i","d","a","t","i","o","n">>
k_neutral == <<"n","e","u","t","r","a","l">>

----------------------------------------------------------------------------
(* Helper lookups (floats in tenths) *)

(* A dict is a function on its keys; dict.get(key, default) *)
DictGet(table, key, default) ==
    IF key \in DOMAIN table THEN table[key] ELSE default

DictKeys(table) == DOMAIN table

base_saturation_table ==
    (k_iron :> 65)
    @@ (k_cobalt :> 85)
    @@ (k_copper :> 80)
    @@ (k_chrome :> 70)
    @@ (k_manganese :> 55)
    @@ (k_vanadium :> 60)

_get_colorant_base_saturation(colorant) ==
    DictGet(base_saturation_table, lower(colorant), 60)

reduction_shifts ==
    (k_copper :> -15)
    @@ (k_iron :> -8)
    @@ (k_cobalt :> -5)
    @@ (k_chrome :> 0)
    @@ (k_manganese :> 3)
    @@ (k_vanadium :> -10)

_get_reduction_hue_shift(colorant) ==
    DictGet(reduction_shifts, lower(colorant), 0)

oxidation_shifts ==
    (k_copper :> 5)
    @@ (k_iron :> 8)
    @@ (k_cobalt :> 2)
    @@ (k_chrome :> 0)
    @@ (k_manganese :> -3)
    @@ (k_vanadium :> 5)

_get_oxidation_hue_shift(colorant) ==
    DictGet(oxidation_shifts, lower(colorant), 0)

----------------------------------------------------------------------------
(* Morphisms *)

(* Mutant: the constants of the reduction and oxidation branches swapped *)
apply_atmosphere_morphism_swapped(colorant, atmosphere) ==
    IF colorant.type # "str" THEN AttributeError(colorant)
    ELSE IF atmosphere.type # "str" THEN AttributeError(atmosphere)
    ELSE IF lower(atmosphere.val) = k_reduction
         THEN Ok(<<40, 7, _get_reduction_hue_shift(colorant.val)>>)
         ELSE IF lower(atmosphere.val) = k_oxidation
              THEN Ok(<<85, 13, _get_oxidation_hue_shift(colorant.val)>>)
              ELSE Ok(<<55, 10, 0>>)

(* Mutant: oxidation made brighter than the threshold 4 of the text rules *)
apply_atmosphere_morphism_bright(colorant, atmosphere) ==
    IF colorant.type # "str" THEN AttributeError(colorant)
    ELSE IF atmosphere.type # "str" THEN AttributeError(atmosphere)
    ELSE IF lower(atmosphere.val) = k_reduction
         THEN Ok(<<85, 13, _get_reduction_hue_shift(colorant.val)>>)
         ELSE IF lower(atmosphere.val) = k_oxidation
              THEN Ok(<<35, 7, _get_oxidation_hue_shift(colorant.val)>>)
              ELSE Ok(<<55, 10, 0>>)

(* Returns (optical_intensity, saturation_modifier, hue_shift); hue_shift *)
(* is the table's own number, not tenths.                                  *)
apply_atmosphere_morphism(colorant, atmosphere) ==
    IF colorant.type # "str" THEN AttributeError(colorant)
    ELSE IF atmosphere.type # "str" THEN AttributeError(atmosphere)
    ELSE IF lower(atmosphere.val) = k_reduction
         THEN Ok(<<85, 13, _get_reduction_hue_shift(colorant.val)>>)
         ELSE IF lower(atmosphere.val) = k_oxidation
              THEN Ok(<<40, 7, _get_oxidation_hue_shift(colorant.val)>>)
              ELSE Ok(<<55, 10, 0>>)

flux_profiles ==
    (k_boron :> <<95, "glossy, mirror-like, highly reflective">>)
    @@ (k_alkaline :> <<60, "satin, fluid, slight matte">>)
    @@ (k_alkaline_earth :> <<25, "matte, absorptive, grounded">>)
    @@ (k_lead :> <<80, "glassy, smooth, luminous">>)

(* Mutant: the default description of _sensory_intention used here too *)
apply_flux_morphism_undefined(flux_type) ==
    IF flux_type.type # "str"
    THEN AttributeError(flux_type)
    ELSE Ok(DictGet(flux_profiles, lower(flux_type.val), <<50, "undefined">>))

(* Returns (reflectivity, surface_description) *)
apply_flux_morphism(flux_type) ==
    IF flux_type.type # "str"
    THEN AttributeError(flux_type)
    ELSE Ok(DictGet(flux_profiles, lower(flux_type.val), <<50, "balanced">>))

(* Mutant: the mid-fire band tested with < instead of <= *)
apply_temperature_morphism_lt(cone) ==
    IF ~IsNumber(cone)
    THEN TypeErrorLe(cone)
    ELSE IF cone.val <= 2
         THEN Ok(<<35, 10>>)
         ELSE IF cone.val < 6
              THEN Ok(<<70, 40>>)
              ELSE Ok(<<95, 80>>)

(* Returns (maturation, crystallinity) *)
apply_temperature_morphism(cone) ==
    IF ~IsNumber(cone)
    THEN TypeErrorLe(cone)
    ELSE IF cone.val <= 2
         THEN Ok(<<35, 10>>)
         ELSE IF cone.val <= 6
              THEN Ok(<<70, 40>>)
              ELSE Ok(<<95, 80>>)

colorant_profiles ==
    (k_iron :> [hue_temperature |-> 80, color_purity |-> 60,
                 characteristic_intensity |-> 65,
                 description |-> "earthy, natural, warm depth"])
    @@ (k_cobalt :> [hue_temperature |-> 15, color_purity |-> 90,
                   characteristic_intensity |-> 85,
                   description |-> "intense blue, pure, gem-like"])
    @@ (k_copper :> [hue_temperature |-> 50, color_purity |-> 80,
                   characteristic_intensity |-> 80,
                   description |-> "versatile, responds dramatically to atmosphere"])
    @@ (k_chrome :> [hue_temperature |-> 20, color_purity |-> 70,
                   characteristic_intensity |-> 70,
                   description |-> "stable green, mineral quality"])
    @@ (k_manganese :> [hue_temperature |-> 10, color_purity |-> 50,
                      characteristic_intensity |-> 55,
                      description |-> "soft purple-brown, muted, organic"])
    @@ (k_vanadium :> [hue_temperature |-> 70, color_purity |-> 65,
                     characteristic_intensity |-> 60,
                     description |-> "warm yellow, slightly muted, rare"])

unknown_colorant_profile ==
    [hue_temperature |-> 50, color_purity |-> 50,
     characteristic_intensity |-> 50,
     description |-> "unknown colorant, assumed neutral"]

(* Mutant: colorant_profiles[colorant.lower()] instead of .get *)
apply_colorant_morphism_index(colorant) ==
    IF colorant.type # "str"
    THEN AttributeError(colorant)
    ELSE IF lower(colorant.val) \in DOMAIN colorant_profiles
         THEN Ok(colorant_profiles[lower(colorant.val)])
         ELSE Raise("KeyError", <<"'">> \o lower(colorant.val) \o <<"'">>)

apply_colorant_morphism(colorant) ==
    IF colorant.type # "str"
    THEN AttributeError(colorant)
    ELSE Ok(DictGet(colorant_profiles, lower(colorant.val),
                    unknown_colorant_profile))

----------------------------------------------------------------------------
(* Arithmetic on doubles.                                                  *)
(* A computed double is the exact rational num/den plus a rounding error   *)
(* too small to model; err \in {-1, 1} is its sign. It decides only where  *)
(* the exact value sits on a rounding tie or exactly on a threshold.       *)

FloatErr == {-1, 1}

Min(a, b) == IF a <= b THEN a ELSE b

(* round(num/den, 1), in tenths *)
Round1(num, den, err) ==
    LET q == (10 * num) \div den
        r == (10 * num) % den
    IN  IF 2 * r > den THEN q + 1
        ELSE IF 2 * r < den THEN q
        ELSE IF err > 0 THEN q + 1 ELSE q

(* num/den > k and num/den < k, for an integer k *)
Gt(num, den, k, err) == num > k * den \/ (num = k * den /\ err > 0)
Lt(num, den, k, err) == num < k * den \/ (num = k * den /\ err < 0)

----------------------------------------------------------------------------
(* Text synthesis. A saturation is passed as its numerator over SatDen.    *)

typical_amount == 80

(* amount_factor = 0.3 + min(percentage / typical_amount, 1.5) * 0.7,      *)
(* as a numerator over AmountDen                                           *)
AmountDen == 10 * typical_amount

(* Mutant: max instead of min *)
amount_factor_max(pct) ==
    3 * typical_amount
      + 7 * (IF pct >= (15 * typical_amount) \div 10
             THEN pct ELSE (15 * typical_amount) \div 10)

(* Mutant: the min(..., 1.5) left out *)
amount_factor_nocap(pct) == 3 * typical_amount + 7 * pct

amount_factor(pct) ==
    3 * typical_amount + 7 * Min(pct, (15 * typical_amount) \div 10)

(* base_sat/10 * sat_mod/10 * amount_factor/AmountDen has denominator      *)
(* SatDen; base_sat/10 * maturation_boost = 3*base_sat*maturation/10000    *)
(* is brought to it.                                                       *)
SatDen == 100 * AmountDen

_generate_impression(intensity, saturation, reflectivity, maturation, err) ==
    LET mood ==
            IF intensity > 70 /\ Gt(saturation, SatDen, 7, err)
            THEN "deep and saturated"
            ELSE IF intensity < 40 /\ Lt(saturation, SatDen, 5, err)
            THEN "bright and delicate"
            ELSE IF reflectivity > 80
            THEN "luminous and reflective"
            ELSE IF reflectivity < 30
            THEN "matte and earthy"
            ELSE "balanced and intentional"
        maturity ==
            IF maturation > 80 THEN "fully developed"
            ELSE IF maturation > 60 THEN "well-matured"
            ELSE "developing"
    IN  <<mood, ", ", maturity>>

atmosphere_intent ==
    (k_reduction :> "mysterious, concentrated, sultry")
    @@ (k_oxidation :> "clear, bright, direct")
    @@ (k_neutral :> "balanced, stable")

flux_intent ==
    (k_boron :> "luminous and flowing")
    @@ (k_alkaline :> "fluid and dynamic")
    @@ (k_alkaline_earth :> "stable and grounded")
    @@ (k_lead :> "smooth and glassy")

(* Mutant: the lookups made without lower() *)
_sensory_intention_nolower(atmosphere, flux_type, colorant, intensity, reflectivity) ==
    << DictGet(atmosphere_intent, atmosphere, "undefined"),
       "; ",
       DictGet(flux_intent, flux_type, "undefined") >>

_sensory_intention(atmosphere, flux_type, colorant, intensity, reflectivity) ==
    << DictGet(atmosphere_intent, lower(atmosphere), "undefined"),
       "; ",
       DictGet(flux_intent, lower(flux_type), "undefined") >>

_visual_mood(intensity, saturation, err) ==
    LET intensity_mood ==
            IF intensity > 70 THEN "dark"
            ELSE IF intensity < 40 THEN "light"
            ELSE "medium"
        saturation_mood ==
            IF Gt(saturation, SatDen, 8, err) THEN "highly saturated"
            ELSE IF Lt(saturation, SatDen, 4, err) THEN "muted"
            ELSE "balanced"
    IN  <<intensity_mood, ", ", saturation_mood>>

----------------------------------------------------------------------------
(* Composite glaze analysis *)

(* Mutant: the cap at 10.0 left out *)
final_saturation_uncapped(base_sat, sat_mod, maturation, pct) ==
    base_sat * sat_mod * amount_factor(pct)
      + 3 * base_sat * maturation * (AmountDen \div 100)

(* final_saturation after the cap, as a numerator over SatDen *)
final_saturation(base_sat, sat_mod, maturation, pct) ==
    Min(base_sat * sat_mod * amount_factor(pct)
          + 3 * base_sat * maturation * (AmountDen \div 100),
        10 * SatDen)

(* Mutant: runs ignored *)
flow_intensity_noruns(reflectivity, runs) == reflectivity * 2

(* flow_intensity, as a numerator over 100 *)
flow_intensity(reflectivity, runs) ==
    IF runs THEN reflectivity * 8 ELSE reflectivity * 2

(* Lines 229-274: the blend of the four morphism results atm, flx, tmp,    *)
(* col into the bundle, once the morphisms have returned.                  *)
glaze_effect(colorant, colorant_percentage, flux_type, atmosphere, runs, atm, flx, tmp, col, err) ==
    IF ~IsNumber(colorant_percentage)
    THEN TypeErrorDiv(colorant_percentage)
    ELSE
    LET opt_intensity == atm[1]
        sat_mod == atm[2]
        reflectivity == flx[1]
        surface_desc == flx[2]
        maturation == tmp[1]
        crystallinity == tmp[2]
        colorant_profile == col
        base_sat == _get_colorant_base_saturation(colorant.val)
        final_sat == final_saturation(base_sat, sat_mod, maturation,
                                      colorant_percentage.val)
        flow == flow_intensity(reflectivity, runs)
    IN  Ok([
          glaze_name |->
              capitalize(atmosphere.val) \o <<" ">> \o capitalize(colorant.val),
          visual_parameters |-> [
              optical_intensity |-> Round1(opt_intensity, 10, err),
              saturation |-> Round1(final_sat, SatDen, err),
              reflectivity |-> Round1(reflectivity, 10, err),
              hue_temperature |->
                  Round1(colorant_profile.hue_temperature, 10, err),
              maturation_level |-> Round1(maturation, 10, err),
              crystalline_definition |-> Round1(crystallinity, 10, err),
              surface_flow |-> Round1(flow, 100, err) ],
          descriptive_qualities |-> [
              atmosphere_effect |-> atmosphere.val \o <<" firing">>,
              surface_texture |-> surface_desc,
              colorant_character |-> colorant_profile.description,
              overall_impression |->
                  _generate_impression(opt_intensity, final_sat,
                                       reflectivity, maturation, err) ],
          sensory_intention |-> [
              feels_like |->
                  _sensory_intention(atmosphere.val, flux_type.val,
                                     colorant.val, opt_intensity,
                                     reflectivity),
              visual_mood |-> _visual_mood(opt_intensity, final_sat, err) ]
        ])

analyze_glaze_formulation(colorant, colorant_percentage, flux_type, atmosphere, cone, runs, err) ==
    LET atm == apply_atmosphere_morphism(colorant, atmosphere)
        flx == apply_flux_morphism(flux_type)
        tmp == apply_temperature_morphism(cone)
        col == apply_colorant_morphism(colorant)
    IN  IF atm.raised THEN atm
        ELSE IF flx.raised THEN flx
        ELSE IF tmp.raised THEN tmp
        ELSE IF col.raised THEN col
        ELSE glaze_effect(colorant, colorant_percentage, flux_type, atmosphere,
                          runs, atm.value, flx.value, tmp.value, col.value, err)

----------------------------------------------------------------------------
(* server.py: the listing tools. The dictionaries are held as tables of    *)
(* <<key, entry>>; formulas written with subscript digits and dashes in    *)
(* the source are spelled in ASCII. json.dumps is not modelled: the        *)
(* result is the dictionary it serialises.                                 *)

colorants ==
    (k_iron :> [description |-> "Iron oxide (Fe2O3/Fe3O4)",
                 visual_character |-> "earthy, warm, natural-feeling",
                 under_oxidation |-> "yellows, browns, reds",
                 under_reduction |-> "blacks, dark greens, blacks with brown edges",
                 typical_percentage |-> "5-8%",
                 warmth_score |-> 80,
                 note |-> "Most versatile, historically important colorant"])
    @@ (k_cobalt :> [description |-> "Cobalt oxide (CoO)",
                   visual_character |-> "pure intense blue, jewel-like",
                   under_oxidation |-> "clear, pure blues",
                   under_reduction |-> "deep purples, darker blues with mystery",
                   typical_percentage |-> "0.5-2%",
                   warmth_score |-> 15,
                   note |-> "Strongest colorant, potent even in small amounts"])
    @@ (k_copper :> [description |-> "Copper oxide (CuO/Cu2O)",
                   visual_character |-> "versatile, atmosphere-responsive",
                   under_oxidation |-> "greens, blue-greens, turquoise",
                   under_reduction |-> "deep reds, black-reds, copper metallic",
                   typical_percentage |-> "5-10%",
                   warmth_score |-> 50,
                   note |-> "Most atmosphere-sensitive, dramatic shifts possible"])
    @@ (k_chrome :> [description |-> "Chromium oxide (Cr2O3)",
                   visual_character |-> "stable mineral green, environmental",
                   under_oxidation |-> "greens, olive greens",
                   under_reduction |-> "greens (remains stable)",
                   typical_percentage |-> "5-8%",
                   warmth_score |-> 20,
                   note |-> "Stable, doesn't shift under atmosphere changes"])
    @@ (k_manganese :> [description |-> "Manganese dioxide (MnO2)",
                      visual_character |-> "soft purple-brown, muted, organic",
                      under_oxidation |-> "browns, purples, browns with purple tint",
                      under_reduction |-> "darker browns, purples, near-black",
                      typical_percentage |-> "3-8%",
                      warmth_score |-> 10,
                      note |-> "Produces subtle colors, good for blending"])
    @@ (k_vanadium :> [description |-> "Vanadium pentoxide (V2O5)",
                     visual_character |-> "warm yellow, slightly muted, rare",
                     under_oxidation |-> "yellows, yellow-greens",
                     under_reduction |-> "yellows, warm browns",
                     typical_percentage |-> "5-10%",
                     warmth_score |-> 70,
                     note |-> "Rare, expensive, produces unique warm tones"])

list_available_colorants == Ok(colorants)

fluxes ==
    (k_boron :> [chemistry |-> "Boron oxide (B2O3), usually from borax or boric acid",
                  melting_behavior |-> "Creates glassy, fluid melts with strong surface tension reduction",
                  surface_finish |-> "Glossy, mirror-like, highly reflective",
                  reflectivity_score |-> 95,
                  running_behavior |-> "Moderate to high--runs easily on vertical surfaces",
                  typical_use |-> "For glossy surfaces, color clarity, smooth finishes",
                  cone_range |-> "Any, but especially effective mid-fire (cone 5-6)",
                  visual_effect |-> "luminous and flowing, mirror-like luminosity",
                  note |-> "Creates the brightest, glossiest surfaces"])
    @@ (k_alkaline :> [chemistry |-> "Soda (Na2O), potassium (K2O), or soda ash",
                     melting_behavior |-> "Creates fluid, flowing melts; viscosity varies with amount",
                     surface_finish |-> "Satin to semi-gloss, somewhat fluid",
                     reflectivity_score |-> 60,
                     running_behavior |-> "High--glazes will run and pool at edges",
                     typical_use |-> "For dynamic, running glazes; creates pooling effects",
                     cone_range |-> "Mid to high fire (cone 5 and up)",
                     visual_effect |-> "fluid and dynamic, gravity-affected flowing",
                     note |-> "Creates intentional runs and pooling; dramatic edge effects"])
    @@ (k_alkaline_earth :> [chemistry |-> "Calcium (CaO), magnesium (MgO), strontium (SrO)",
                           melting_behavior |-> "Creates stiffer melts; limited fluidity",
                           surface_finish |-> "Matte, semi-matte, absorptive",
                           reflectivity_score |-> 25,
                           running_behavior |-> "Low--stays where applied, minimal running",
                           typical_use |-> "For matte surfaces, natural textures, earthy feel",
                           cone_range |-> "Mid to high fire (cone 5-13)",
                           visual_effect |-> "stable and grounded, light-absorbing",
                           note |-> "Creates most natural, earthy finishes"])
    @@ (k_lead :> [chemistry |-> "Lead oxide (PbO) - use in tested commercial glazes only",
                 melting_behavior |-> "Creates smooth, glassy melts; very fluid",
                 surface_finish |-> "Glassy, smooth, luminous",
                 reflectivity_score |-> 80,
                 running_behavior |-> "Moderate--flows smoothly but controlled",
                 typical_use |-> "Historic glazes, functional ware (food-safe when tested)",
                 cone_range |-> "Low to mid fire (cone 06-2)",
                 visual_effect |-> "smooth and glassy, refined luminosity",
                 note |-> "Historically important; modern use requires safety testing. Not typically used in studio practice anymore."])

list_available_fluxes == Ok(fluxes)

----------------------------------------------------------------------------
(* server.py: the tools that call the processor. A tool returns the        *)
(* dictionary that json.dumps serialises; an exception caught at the       *)
(* boundary becomes {"error": str(e)}.                                     *)

(* Mutant: the call made without try/except *)
tool_analyze_glaze_formulation_notry(colorant, colorant_percentage, flux_type, atmosphere, cone, runs, err) ==
    analyze_glaze_formulation(colorant, colorant_percentage, flux_type,
                              atmosphere, cone, runs, err)

tool_analyze_glaze_formulation(colorant, colorant_percentage, flux_type, atmosphere, cone, runs, err) ==
    LET r == analyze_glaze_formulation(colorant, colorant_percentage,
                                       flux_type, atmosphere, cone, runs, err)
    IN  IF r.raised THEN Ok([error |-> r.msg]) ELSE Ok(r.value)

(* f"{x}" for a str or None; a prompt is held as its fragments *)
format(x) == IF x.type = "str" THEN x.val ELSE <<"None">>

(* sep.join(parts): each part is a sequence of fragments, and sep becomes  *)
(* a fragment of its own between two parts                                 *)
RECURSIVE join(_, _)
join(sep, parts) ==
    IF parts = <<>> THEN <<>>
    ELSE IF Len(parts) = 1 THEN parts[1]
    ELSE parts[1] \o <<sep>> \o join(sep, Tail(parts))

(* Lines 115-121, on the rounded optical_intensity *)
optical_quality(optical_intensity) ==
    IF optical_intensity > 70 THEN "dark, concentrated optical quality"
    ELSE IF optical_intensity < 40 THEN "bright, transparent, luminous quality"
    ELSE "balanced, medium-value optical quality"

(* Lines 123-129 *)
surface_finish(reflectivity) ==
    IF reflectivity > 80
    THEN "glossy mirror-like surface with strong light reflection"
    ELSE IF reflectivity < 30 THEN "matte absorptive surface with diffuse light"
    ELSE "satin semi-gloss surface"

(* Lines 131-137, on the rounded saturation *)
color_saturation(saturation) ==
    IF saturation > 80 THEN "intensely saturated, vivid coloration"
    ELSE IF saturation < 40 THEN "subtly tinted, muted coloration"
    ELSE "balanced, clear coloration"

(* Lines 139-146 *)
hue_quality(hue_temp) ==
    IF hue_temp > 70 THEN "warm-toned, earthy character"
    ELSE IF hue_temp < 30 THEN "cool-toned, pure character"
    ELSE "neutral balanced coloration"

(* Lines 148-152 *)
maturation_finish(maturation_level) ==
    IF maturation_level > 80 THEN "fully matured, intentional finish"
    ELSE "developing, slightly softer edges"

(* The percentage enhance_image_prompt_from_glaze passes on: 10.0 *)
assumed_percentage == 100

(* Mutant: the reference amount 8.0 passed instead of 10.0 *)
enhance_analysis_reference(colorant, flux_type, atmosphere, cone, err) ==
    analyze_glaze_formulation(colorant, PyFloat(typical_amount), flux_type,
                              atmosphere, cone, FALSE, err)

(* Lines 99-106: the analysis the enhancement is built on *)
enhance_analysis(colorant, flux_type, atmosphere, cone, err) ==
    analyze_glaze_formulation(colorant, PyFloat(assumed_percentage), flux_type,
                              atmosphere, cone, FALSE, err)

(* Mutant: the sensory phrase left out *)
enhancement_parts_nofeel(glaze_analysis) ==
    LET visual_params == glaze_analysis.visual_parameters
    IN  << <<optical_quality(visual_params.optical_intensity)>>,
           <<surface_finish(visual_params.reflectivity)>>,
           <<color_saturation(visual_params.saturation)>>,
           <<hue_quality(visual_params.hue_temperature)>>,
           <<maturation_finish(visual_params.maturation_level)>> >>

(* Lines 108-155 *)
enhancement_parts(glaze_analysis) ==
    LET visual_params == glaze_analysis.visual_parameters
        sensory == glaze_analysis.sensory_intention
    IN  << <<optical_quality(visual_params.optical_intensity)>>,
           <<surface_finish(visual_params.reflectivity)>>,
           <<color_saturation(visual_params.saturation)>>,
           <<hue_quality(visual_params.hue_temperature)>>,
           <<maturation_finish(visual_params.maturation_level)>>,
           <<"feels ">> \o sensory.feels_like >>

usage_note ==
    "Use 'enhanced_prompt' directly with image generators, or extract 'enhancement_text' to blend manually"

enhance_image_prompt_from_glaze(base_prompt, colorant, flux_type, atmosphere, cone, err) ==
    LET r == enhance_analysis(colorant, flux_type, atmosphere, cone, err)
    IN  IF r.raised THEN Ok([error |-> r.msg])
        ELSE
        LET glaze_analysis == r.value
            enhancement_text == join("; ", enhancement_parts(glaze_analysis))
            enhanced_prompt ==
                format(base_prompt) \o <<" [glaze aesthetic: ">>
                    \o enhancement_text \o <<"]">>
        IN  Ok([original_prompt |-> base_prompt,
                glaze_analysis |-> glaze_analysis,
                enhancement_text |-> enhancement_text,
                enhanced_prompt |-> enhanced_prompt,
                usage_note |-> usage_note])

(* Lines 322-347: the fixed text around the two descriptions *)
compare_glaze_formulations(glaze1_description, glaze2_description) ==
    Ok([analysis |->
            <<"\nGlaze Comparison: Qualitative Analysis\n\nGlaze 1: ">>
              \o format(glaze1_description)
              \o <<"\nGlaze 2: ">>
              \o format(glaze2_description)
              \o <<"\n\nThis comparison tool provides qualitative sensory analysis. For precise visual parameters,\nplease use analyze_glaze_formulation() with explicit chemistry specifications:\n- specify colorant (iron, cobalt, copper, chrome, manganese, vanadium)\n- specify flux_type (boron, alkaline, alkaline_earth, lead)\n- specify atmosphere (oxidation, reduction, neutral)\n- specify cone number\n\nThe comparison highlights how different chemistry choices create different sensory intentions:\n- Reduction vs oxidation: dramatic hue/saturation shifts\n- Boron vs alkaline earth: gloss vs matte spectrum\n- Iron vs cobalt: warm vs cool color character\n- High fire vs mid fire: maturation and crystalline effects\n\nProvide formulation details for quantitative analysis.\n    ">>,
        recommendation |->
            "Use analyze_glaze_formulation() for precise parameter extraction"])

----------------------------------------------------------------------------
(* Inputs *)

MaxCone == 7
MaxPctSteps == 6

s_empty == <<>>
s_Cobalt == <<"C","o","b","a","l","t">>
s_zinc == <<"z","i","n","c">>
s_Boron == <<"B","o","r","o","n">>
s_Reduction == <<"R","e","d","u","c","t","i","o","n">>
s_raku == <<"r","a","k","u">>

ColorantStrings ==
    DictKeys(colorant_profiles) \cup {s_Cobalt, s_zinc, s_empty}
FluxStrings == DictKeys(flux_profiles) \cup {s_Boron, s_empty}
AtmosphereStrings ==
    {k_reduction, k_oxidation, k_neutral, s_Reduction, s_raku, s_empty}

ColorantArgs == {PyStr(s) : s \in ColorantStrings} \cup {PyNone}
FluxArgs == {PyStr(s) : s \in FluxStrings} \cup {PyNone}
AtmosphereArgs == {PyStr(s) : s \in AtmosphereStrings} \cup {PyNone}

Cones == (-1)..MaxCone
ConeArgs == {PyInt(c) : c \in Cones} \cup {PyNone}

(* colorant_percentage in tenths of a percent: -100.0, -1.0, 0.5, 1.0,    *)
(* 15.0, 1000.0 and every second percent from 0.0                          *)
Percentages ==
    {-1000, -10, 5, 10, 150, 10000} \cup {20 * i : i \in 0..MaxPctSteps}
PercentageArgs == {PyFloat(p) : p \in Percentages} \cup {PyNone}

Formulations ==
    [colorant : ColorantArgs, colorant_percentage : PercentageArgs,
     flux_type : FluxArgs, atmosphere : AtmosphereArgs, cone : ConeArgs,
     runs : BOOLEAN]

analyze(f, err) ==
    analyze_glaze_formulation(f.colorant, f.colorant_percentage, f.flux_type,
                              f.atmosphere, f.cone, f.runs, err)

(* Arguments of the server tools: -100.0, 2.0 and 10.0 percent, and null  *)
ToolPercentageArgs ==
    {PyFloat(p) : p \in {-1000, 20, assumed_percentage}} \cup {PyNone}

ToolFormulations ==
    [colorant : ColorantArgs, colorant_percentage : ToolPercentageArgs,
     flux_type : FluxArgs, atmosphere : AtmosphereArgs, cone : ConeArgs,
     runs : BOOLEAN]

tool_analyze(f, err) ==
    tool_analyze_glaze_formulation(f.colorant, f.colorant_percentage,
                                   f.flux_type, f.atmosphere, f.cone, f.runs,
                                   err)

BasePrompts ==
    {PyStr(<<"a ceramic vase on a shelf">>), PyStr(<<>>),
     PyStr(<<"a bowl", "; ", "a cup">>), PyNone}

Enhancements ==
    [base_prompt : BasePrompts, colorant : ColorantArgs, flux_type : FluxArgs,
     atmosphere : AtmosphereArgs, cone : ConeArgs]

enhance(x, err) ==
    enhance_image_prompt_from_glaze(x.base_prompt, x.colorant, x.flux_type,
                                    x.atmosphere, x.cone, err)

Descriptions ==
    {PyStr(<<"reduction copper boron flux cone 10">>),
     PyStr(<<"oxidation iron alkaline earth cone 6">>), PyStr(<<>>), PyNone}

----------------------------------------------------------------------------
(* The state machine: the module-level processor is constructed once, then *)
(* each operation is called with some arguments and returns. pc is "idle"  *)
(* or the name of the operation whose result is being handed back.         *)

NoCall == [op |-> "none"]
NoResult == [raised |-> FALSE]

(* self.olog: the document _load_olog read (the file is named, its content *)
(* is not part of the source tree) and how many times it has been loaded.  *)
Unloaded == [document |-> "", loads |-> 0]

_load_olog(o) == [document |-> "glazing_olog.yaml", loads |-> o.loads + 1]

(* Callers that use the one module-level processor at the same time. Each *)
(* has the position of its call in analyze_glaze_formulation, the          *)
(* arguments and rounding error of that call, the value it returned, and   *)
(* the call it made before (last).                                         *)
NumCallers == 2
Callers == 1..NumCallers

NoLast == [args |-> NoCall, err |-> 1, result |-> NoResult]

IdleCaller(last) ==
    [pc |-> "idle", args |-> NoCall, err |-> 1, result |-> NoResult,
     last |-> last]

(* The local variables a call assigns from the four morphisms; NoResult    *)
(* is an unbound local.                                                    *)
EmptyFrame ==
    [atm |-> NoResult, flx |-> NoResult, tmp |-> NoResult, col |-> NoResult]

(* Mutant: the locals kept in one place on the shared processor *)
frame_shared(i) == 1

(* The activation record of caller i's call: each call has its own *)
frame(i) == i

(* Mutant: the bundle of the caller's previous call handed back again *)
returned_cached(last, bundle) ==
    IF last.result # NoResult THEN last.result ELSE bundle

(* Line 249: the call returns the bundle it has just built *)
returned(last, bundle) == bundle

(* The formulations the concurrent callers ask for: the example of the     *)
(* documentation, a running matte glaze, and a call that fails at the      *)
(* temperature morphism.                                                   *)
SharedFormulations ==
    { [colorant |-> PyStr(k_cobalt), colorant_percentage |-> PyFloat(20),
       flux_type |-> PyStr(k_boron), atmosphere |-> PyStr(k_reduction),
       cone |-> PyInt(10), runs |-> FALSE],
      [colorant |-> PyStr(k_iron), colorant_percentage |-> PyFloat(80),
       flux_type |-> PyStr(k_alkaline_earth), atmosphere |-> PyStr(k_oxidation),
       cone |-> PyInt(6), runs |-> TRUE],
      [colorant |-> PyStr(s_zinc), colorant_percentage |-> PyFloat(50),
       flux_type |-> PyStr(k_lead), atmosphere |-> PyStr(k_neutral),
       cone |-> PyNone, runs |-> FALSE] }

Init ==
    /\ olog = _load_olog(Unloaded)
    /\ pc = "idle"
    /\ call = NoCall
    /\ result = NoResult
    /\ callers = [i \in Callers |-> IdleCaller(NoLast)]
    /\ frames = [i \in Callers |-> EmptyFrame]

ApplyAtmosphereMorphism ==
    /\ pc = "idle"
    /\ \E c \in ColorantArgs, a \in AtmosphereArgs :
          /\ call' = [op |-> "apply_atmosphere_morphism",
                      args |-> [colorant |-> c, atmosphere |-> a]]
          /\ result' = apply_atmosphere_morphism(c, a)
    /\ pc' = "apply_atmosphere_morphism"
    /\ UNCHANGED <<olog, callers, frames>>

ApplyFluxMorphism ==
    /\ pc = "idle"
    /\ \E f \in FluxArgs :
          /\ call' = [op |-> "apply_flux_morphism", args |-> [flux_type |-> f]]
          /\ result' = apply_flux_morphism(f)
    /\ pc' = "apply_flux_morphism"
    /\ UNCHANGED <<olog, callers, frames>>

ApplyTemperatureMorphism ==
    /\ pc = "idle"
    /\ \E c \in ConeArgs :
          /\ call' = [op |-> "apply_temperature_morphism", args |-> [cone |-> c]]
          /\ result' = apply_temperature_morphism(c)
    /\ pc' = "apply_temperature_morphism"
    /\ UNCHANGED <<olog, callers, frames>>

ApplyColorantMorphism ==
    /\ pc = "idle"
    /\ \E c \in ColorantArgs :
          /\ call' = [op |-> "apply_colorant_morphism", args |-> [colorant |-> c]]
          /\ result' = apply_colorant_morphism(c)
    /\ pc' = "apply_colorant_morphism"
    /\ UNCHANGED <<olog, callers, frames>>

(* err is recorded as 1 unless it decides something in this call *)
AnalyzeGlazeFormulation ==
    /\ pc = "idle"
    /\ \E f \in Formulations, e \in FloatErr :
          LET r == analyze(f, e)
          IN  /\ e = 1 \/ r # analyze(f, 1)
              /\ call' = [op |-> "analyze_glaze_formulation",
                          args |-> f, err |-> e]
              /\ result' = r
    /\ pc' = "analyze_glaze_formulation"
    /\ UNCHANGED <<olog, callers, frames>>

(* Mutant: the tool constructs the processor anew, loading the olog again *)
ListAvailableColorants_reload ==
    /\ pc = "idle"
    /\ call' = [op |-> "list_available_colorants"]
    /\ result' = list_available_colorants
    /\ pc' = "list_available_colorants"
    /\ olog' = _load_olog(olog)
    /\ UNCHANGED <<callers, frames>>

ListAvailableColorants ==
    /\ pc = "idle"
    /\ call' = [op |-> "list_available_colorants"]
    /\ result' = list_available_colorants
    /\ pc' = "list_available_colorants"
    /\ UNCHANGED <<olog, callers, frames>>

ListAvailableFluxes ==
    /\ pc = "idle"
    /\ call' = [op |-> "list_available_fluxes"]
    /\ result' = list_available_fluxes
    /\ pc' = "list_available_fluxes"
    /\ UNCHANGED <<olog, callers, frames>>

GetColorantBaseSaturation ==
    /\ pc = "idle"
    /\ \E c \in ColorantStrings :
          /\ call' = [op |-> "_get_colorant_base_saturation",
                      args |-> [colorant |-> PyStr(c)]]
          /\ result' = Ok(_get_colorant_base_saturation(c))
    /\ pc' = "_get_colorant_base_saturation"
    /\ UNCHANGED <<olog, callers, frames>>

GetReductionHueShift ==
    /\ pc = "idle"
    /\ \E c \in ColorantStrings :
          /\ call' = [op |-> "_get_reduction_hue_shift",
                      args |-> [colorant |-> PyStr(c)]]
          /\ result' = Ok(_get_reduction_hue_shift(c))
    /\ pc' = "_get_reduction_hue_shift"
    /\ UNCHANGED <<olog, callers, frames>>

GetOxidationHueShift ==
    /\ pc = "idle"
    /\ \E c \in ColorantStrings :
          /\ call' = [op |-> "_get_oxidation_hue_shift",
                      args |-> [colorant |-> PyStr(c)]]
          /\ result' = Ok(_get_oxidation_hue_shift(c))
    /\ pc' = "_get_oxidation_hue_shift"
    /\ UNCHANGED <<olog, callers, frames>>

ToolAnalyzeGlazeFormulation ==
    /\ pc = "idle"
    /\ \E f \in ToolFormulations, e \in FloatErr :
          LET r == tool_analyze(f, e)
          IN  /\ e = 1 \/ r # tool_analyze(f, 1)
              /\ call' = [op |-> "tool_analyze_glaze_formulation",
                          args |-> f, err |-> e]
              /\ result' = r
    /\ pc' = "tool_analyze_glaze_formulation"
    /\ UNCHANGED <<olog, callers, frames>>

EnhanceImagePromptFromGlaze ==
    /\ pc = "idle"
    /\ \E x \in Enhancements, e \in FloatErr :
          LET r == enhance(x, e)
          IN  /\ e = 1 \/ r # enhance(x, 1)
              /\ call' = [op |-> "enhance_image_prompt_from_glaze",
                          args |-> x, err |-> e]
              /\ result' = r
    /\ pc' = "enhance_image_prompt_from_glaze"
    /\ UNCHANGED <<olog, callers, frames>>

CompareGlazeFormulations ==
    /\ pc = "idle"
    /\ \E g1 \in Descriptions, g2 \in Descriptions :
          /\ call' = [op |-> "compare_glaze_formulations",
                      args |-> [glaze1_description |-> g1,
                                glaze2_description |-> g2]]
          /\ result' = compare_glaze_formulations(g1, g2)
    /\ pc' = "compare_glaze_formulations"
    /\ UNCHANGED <<olog, callers, frames>>

Return ==
    /\ pc # "idle"
    /\ pc' = "idle"
    /\ call' = NoCall
    /\ result' = NoResult
    /\ UNCHANGED <<olog, callers, frames>>

Next ==
    \/ ApplyAtmosphereMorphism
    \/ ApplyFluxMorphism
    \/ ApplyTemperatureMorphism
    \/ ApplyColorantMorphism
    \/ AnalyzeGlazeFormulation
    \/ ListAvailableColorants
    \/ ListAvailableFluxes
    \/ GetColorantBaseSaturation
    \/ GetReductionHueShift
    \/ GetOxidationHueShift
    \/ ToolAnalyzeGlazeFormulation
    \/ EnhanceImagePromptFromGlaze
    \/ CompareGlazeFormulations
    \/ Return

Spec == Init /\ [][Next]_vars

----------------------------------------------------------------------------
(* Concurrent callers: the steps of analyze_glaze_formulation, lines       *)
(* 224-227 and 229-274, taken by several callers in any order on the one   *)
(* processor.                                                              *)

Sequential == <<olog, pc, call, result>>

(* One morphism of caller i's call returns into the local named by field; *)
(* an exception ends the call.                                             *)
Assign(i, r, field, next) ==
    IF r.raised
    THEN /\ callers' = [callers EXCEPT ![i].pc = "done", ![i].result = r]
         /\ UNCHANGED frames
    ELSE /\ callers' = [callers EXCEPT ![i].pc = next]
         /\ frames' = [frames EXCEPT ![frame(i)][field] = r]

CallAnalyze(i) ==
    /\ callers[i].pc = "idle"
    /\ \E f \in SharedFormulations, e \in FloatErr :
          /\ e = 1 \/ analyze(f, e) # analyze(f, 1)
          /\ callers' = [callers EXCEPT ![i].pc = "atmosphere",
                                        ![i].args = f, ![i].err = e]
    /\ frames' = [frames EXCEPT ![frame(i)] = EmptyFrame]
    /\ UNCHANGED Sequential

StepAtmosphere(i) ==
    /\ callers[i].pc = "atmosphere"
    /\ Assign(i, apply_atmosphere_morphism(callers[i].args.colorant,
                                           callers[i].args.atmosphere),
              "atm", "flux")
    /\ UNCHANGED Sequential

StepFlux(i) ==
    /\ callers[i].pc = "flux"
    /\ Assign(i, apply_flux_morphism(callers[i].args.flux_type),
              "flx", "temperature")
    /\ UNCHANGED Sequential

StepTemperature(i) ==
    /\ callers[i].pc = "temperature"
    /\ Assign(i, apply_temperature_morphism(callers[i].args.cone),
              "tmp", "colorant")
    /\ UNCHANGED Sequential

StepColorant(i) ==
    /\ callers[i].pc = "colorant"
    /\ Assign(i, apply_colorant_morphism(callers[i].args.colorant),
              "col", "blend")
    /\ UNCHANGED Sequential

(* Reading a local that is not bound raises UnboundLocalError *)
StepBlend(i) ==
    /\ callers[i].pc = "blend"
    /\ LET a == callers[i].args
           fr == frames[frame(i)]
           bundle ==
               IF \E x \in {"atm", "flx", "tmp", "col"} : fr[x] = NoResult
               THEN Raise("UnboundLocalError",
                          <<"cannot access local variable">>)
               ELSE glaze_effect(a.colorant, a.colorant_percentage,
                                 a.flux_type, a.atmosphere, a.runs,
                                 fr.atm.value, fr.flx.value, fr.tmp.value,
                                 fr.col.value, callers[i].err)
       IN  callers' = [callers EXCEPT
                         ![i].pc = "done",
                         ![i].result = returned(callers[i].last, bundle)]
    /\ UNCHANGED frames
    /\ UNCHANGED Sequential

(* The caller takes the returned value; the frame of the call is gone *)
ReturnAnalyze(i) ==
    /\ callers[i].pc = "done"
    /\ callers' = [callers EXCEPT ![i] =
                     IdleCaller([args |-> callers[i].args,
                                 err |-> callers[i].err,
                                 result |-> callers[i].result])]
    /\ frames' = [frames EXCEPT ![frame(i)] = EmptyFrame]
    /\ UNCHANGED Sequential

NextConcurrent ==
    \E i \in Callers :
        \/ CallAnalyze(i)
        \/ StepAtmosphere(i)
        \/ StepFlux(i)
        \/ StepTemperature(i)
        \/ StepColorant(i)
        \/ StepBlend(i)
        \/ ReturnAnalyze(i)

SpecConcurrent == Init /\ [][NextConcurrent]_vars

----------------------------------------------------------------------------
(* Properties *)

Returned(op) == pc = op

Analyzed == Returned("analyze_glaze_formulation") /\ ~result.raised

WellTyped(f) ==
    /\ f.colorant.type = "str"
    /\ f.flux_type.type = "str"
    /\ f.atmosphere.type = "str"
    /\ IsNumber(f.colorant_percentage)
    /\ IsNumber(f.cone)

VisualParameterNames ==
    {"optical_intensity", "saturation", "reflectivity", "hue_temperature",
     "maturation_level", "crystalline_definition", "surface_flow"}

KnownColorants ==
    {k_iron, k_cobalt, k_copper, k_chrome, k_manganese, k_vanadium}
KnownFluxes == {k_boron, k_alkaline, k_alkaline_earth, k_lead}
KnownAtmospheres == {k_reduction, k_oxidation, k_neutral}

(* C1: every one of the seven numeric outputs of analyze_glaze_formulation *)
(* lies in [0, 10], for every colorant_percentage, negative ones included. *)
C1_OutputsInRange ==
    Analyzed =>
        \A n \in VisualParameterNames :
            /\ result.value.visual_parameters[n] >= 0
            /\ result.value.visual_parameters[n] <= 100

(* C2: the reported saturation never exceeds 10.0. *)
C2_SaturationCapped ==
    Analyzed => result.value.visual_parameters.saturation <= 100

C2_Witness ==
    /\ Analyzed
    /\ call.args.colorant_percentage.val = 10000
    /\ call.args.colorant.val = k_cobalt
    /\ call.args.atmosphere.val = k_reduction
    /\ result.value.visual_parameters.saturation = 100

(* C3: with string categories (known, unknown, mixed-case or empty) and    *)
(* numeric percentage and cone, analyze_glaze_formulation does not raise   *)
(* and returns the complete bundle.                                        *)
C3_NeverRaisesOnStrings ==
    (Returned("analyze_glaze_formulation") /\ WellTyped(call.args)) =>
        /\ ~result.raised
        /\ DOMAIN result.value =
              {"glaze_name", "visual_parameters", "descriptive_qualities",
               "sensory_intention"}
        /\ DOMAIN result.value.visual_parameters = VisualParameterNames
        /\ DOMAIN result.value.descriptive_qualities =
              {"atmosphere_effect", "surface_texture", "colorant_character",
               "overall_impression"}
        /\ DOMAIN result.value.sensory_intention = {"feels_like", "visual_mood"}

C3_Witness ==
    /\ Returned("analyze_glaze_formulation")
    /\ WellTyped(call.args)
    /\ call.args.colorant.val = s_zinc
    /\ call.args.flux_type.val = s_empty
    /\ call.args.atmosphere.val = s_Reduction
    /\ ~result.raised

(* C4: unknown names give the neutral defaults: flux (5.0, "balanced"),    *)
(* colorant profile 5.0/5.0/5.0 with the neutral description, atmosphere   *)
(* (5.5, 1.0, 0); the bundle of analyze_glaze_formulation carries them.    *)
C4_UnknownDefaults ==
    /\ (Returned("apply_flux_morphism") /\ call.args.flux_type.type = "str"
          /\ lower(call.args.flux_type.val) \notin KnownFluxes)
         => result = Ok(<<50, "balanced">>)
    /\ (Returned("apply_colorant_morphism") /\ call.args.colorant.type = "str"
          /\ lower(call.args.colorant.val) \notin KnownColorants)
         => /\ ~result.raised
            /\ result.value.hue_temperature = 50
            /\ result.value.color_purity = 50
            /\ result.value.characteristic_intensity = 50
            /\ result.value.description = "unknown colorant, assumed neutral"
    /\ (Returned("apply_atmosphere_morphism") /\ call.args.colorant.type = "str"
          /\ call.args.atmosphere.type = "str"
          /\ lower(call.args.atmosphere.val) \notin KnownAtmospheres)
         => result = Ok(<<55, 10, 0>>)
    /\ (Analyzed /\ lower(call.args.flux_type.val) \notin KnownFluxes)
         => /\ result.value.visual_parameters.reflectivity = 50
            /\ result.value.descriptive_qualities.surface_texture = "balanced"
    /\ (Analyzed /\ lower(call.args.colorant.val) \notin KnownColorants)
         => /\ result.value.visual_parameters.hue_temperature = 50
            /\ result.value.descriptive_qualities.colorant_character =
                  "unknown colorant, assumed neutral"
    /\ (Analyzed /\ lower(call.args.atmosphere.val) \notin KnownAtmospheres)
         => result.value.visual_parameters.optical_intensity = 55

C4_Witness ==
    /\ Analyzed
    /\ call.args.colorant.val = s_zinc
    /\ call.args.flux_type.val = s_empty
    /\ call.args.atmosphere.val = s_raku
    /\ result.value.visual_parameters.reflectivity = 50
    /\ result.value.visual_parameters.hue_temperature = 50
    /\ result.value.visual_parameters.optical_intensity = 55

(* The same call with the three names replaced by names equal up to case.  *)
(* It runs the same arithmetic on the same doubles, hence the same err.    *)
CaseVariants(f) ==
    { [f EXCEPT !.colorant = PyStr(c), !.flux_type = PyStr(x),
                !.atmosphere = PyStr(a)] :
        c \in {c2 \in ColorantStrings : lower(c2) = lower(f.colorant.val)},
        x \in {x2 \in FluxStrings : lower(x2) = lower(f.flux_type.val)},
        a \in {a2 \in AtmosphereStrings : lower(a2) = lower(f.atmosphere.val)} }

(* C5: two calls whose colorant, flux_type and atmosphere differ only in   *)
(* letter case return the same seven visual parameters, surface_texture,   *)
(* colorant_character, overall_impression, feels_like and visual_mood.     *)
C5_CaseInsensitive ==
    Analyzed =>
        \A g \in CaseVariants(call.args) :
            LET r == analyze(g, call.err)
            IN  /\ ~r.raised
                /\ r.value.visual_parameters = result.value.visual_parameters
                /\ r.value.descriptive_qualities.surface_texture =
                      result.value.descriptive_qualities.surface_texture
                /\ r.value.descriptive_qualities.colorant_character =
                      result.value.descriptive_qualities.colorant_character
                /\ r.value.descriptive_qualities.overall_impression =
                      result.value.descriptive_qualities.overall_impression
                /\ r.value.sensory_intention = result.value.sensory_intention

C5_Witness ==
    /\ Analyzed
    /\ call.args.colorant.val = s_Cobalt
    /\ call.args.flux_type.val = s_Boron
    /\ call.args.atmosphere.val = s_Reduction
    /\ Cardinality(CaseVariants(call.args)) > 1
    /\ result.value.sensory_intention.feels_like =
          <<"mysterious, concentrated, sultry", "; ", "luminous and flowing">>


(* C6: for every colorant, "reduction" gives optical_intensity 8.5 and     *)
(* saturation modifier 1.3, "oxidation" gives 4.0 and 0.7, so both         *)
(* reduction values exceed the oxidation values for the same other inputs. *)
C6_ReductionAboveOxidation ==
    /\ (Returned("apply_atmosphere_morphism") /\ ~result.raised
          /\ call.args.atmosphere.val = k_reduction)
         => LET o == apply_atmosphere_morphism(call.args.colorant,
                                               PyStr(k_oxidation))
            IN  /\ result.value[1] = 85
                /\ result.value[2] = 13
                /\ ~o.raised
                /\ result.value[1] > o.value[1]
                /\ result.value[2] > o.value[2]
    /\ (Returned("apply_atmosphere_morphism") /\ ~result.raised
          /\ call.args.atmosphere.val = k_oxidation)
         => /\ result.value[1] = 40
            /\ result.value[2] = 7
    /\ (Analyzed /\ call.args.atmosphere.val = k_reduction)
         => \A e \in FloatErr :
              LET o == analyze([call.args EXCEPT
                                  !.atmosphere = PyStr(k_oxidation)], e)
              IN  /\ result.value.visual_parameters.optical_intensity = 85
                  /\ ~o.raised
                  /\ o.value.visual_parameters.optical_intensity = 40

C6_Witness ==
    /\ Returned("apply_atmosphere_morphism")
    /\ ~result.raised
    /\ call.args.colorant.val = s_zinc
    /\ call.args.atmosphere.val = k_reduction
    /\ result.value[1] = 85
    /\ result.value[2] = 13

(* C7: apply_temperature_morphism puts every integer cone in one band:     *)
(* cone <= 2 gives (3.5, 1.0), 3..6 gives (7.0, 4.0), cone > 6 gives       *)
(* (9.5, 8.0), with the inequalities on maturation and crystallinity that  *)
(* follow.                                                                 *)
C7_TemperatureBands ==
    (Returned("apply_temperature_morphism") /\ IsNumber(call.args.cone)) =>
        LET cone == call.args.cone.val
        IN  /\ ~result.raised
            /\ cone <= 2 =>
                  /\ result.value = <<35, 10>>
                  /\ result.value[1] < 50 /\ result.value[2] < 30
            /\ (3 <= cone /\ cone <= 6) =>
                  /\ result.value = <<70, 40>>
                  /\ 65 < result.value[1] /\ result.value[1] < 75
            /\ cone > 6 =>
                  /\ result.value = <<95, 80>>
                  /\ result.value[1] > 90

C7_Witness ==
    /\ Returned("apply_temperature_morphism")
    /\ IsNumber(call.args.cone)
    /\ call.args.cone.val = 6
    /\ result = Ok(<<70, 40>>)

(* C8: for every flux, known or not, runs=true reports a surface_flow      *)
(* strictly greater than runs=false with the other inputs equal; the flow  *)
(* is reflectivity*0.8 against reflectivity*0.2.                           *)
C8_RunsIncreasesFlow ==
    (Analyzed /\ call.args.runs) =>
        \A e \in FloatErr :
            LET still == analyze([call.args EXCEPT !.runs = FALSE], e)
                vp == result.value.visual_parameters
            IN  /\ ~still.raised
                /\ vp.surface_flow > still.value.visual_parameters.surface_flow
                /\ 10 * vp.surface_flow = 8 * vp.reflectivity
                /\ 10 * still.value.visual_parameters.surface_flow =
                      2 * vp.reflectivity

C8_Witness ==
    /\ Analyzed
    /\ call.args.runs
    /\ call.args.flux_type.val = s_empty
    /\ result.value.visual_parameters.surface_flow = 40

(* The reported saturation of the call of this state with the percentage   *)
(* replaced by p2                                                          *)
SaturationAt(p2, e) ==
    analyze([call.args EXCEPT !.colorant_percentage = PyFloat(p2)], e)
        .value.visual_parameters.saturation

(* The rounding errors possible in that call: min(p / 8.0, 1.5) is the     *)
(* same double 1.5 for every p >= 12.0, so two such calls run the same     *)
(* arithmetic; otherwise the error of the other call is its own.           *)
ErrsAt(p2) ==
    IF Min(p2, 120) = Min(call.args.colorant_percentage.val, 120)
    THEN {call.err}
    ELSE FloatErr

(* C9 as stated: for p1 < p2 and the other inputs fixed, the saturation    *)
(* reported for p2 is strictly greater than the one reported for p1.       *)
C9_StrictlyIncreasing ==
    Analyzed =>
        \A p2 \in Percentages :
            p2 > call.args.colorant_percentage.val =>
                \A e \in ErrsAt(p2) :
                    SaturationAt(p2, e) >
                        result.value.visual_parameters.saturation

(* C9 amended: for p1 < p2 the saturation reported for p2 is never lower   *)
(* than for p1, and it is strictly greater when min(p2, 12.0) - p1 >= 0.5  *)
(* and the saturation reported for p2 is below 10.0.                       *)
C9_Monotone ==
    Analyzed =>
        \A p2 \in Percentages :
            LET p1 == call.args.colorant_percentage.val
                s1 == result.value.visual_parameters.saturation
            IN  p2 > p1 =>
                  \A e \in ErrsAt(p2) :
                      LET s2 == SaturationAt(p2, e)
                      IN  /\ s2 >= s1
                          /\ (Min(p2, 120) - p1 >= 5 /\ s2 < 100) => s2 > s1

C9_Witness ==
    /\ Analyzed
    /\ call.args.colorant.val = k_cobalt
    /\ call.args.atmosphere.val = k_oxidation
    /\ call.args.cone.val = 6
    /\ call.args.colorant_percentage.val = 5
    /\ \A e \in FloatErr :
          SaturationAt(20, e) > result.value.visual_parameters.saturation
    /\ \A e \in FloatErr : SaturationAt(10000, e) = SaturationAt(150, e)

(* C10: the listing tools agree with the tables of the analysis: the same  *)
(* keys, warmth_score equal to hue_temperature and visual_character equal  *)
(* to the description; reflectivity_score equal to the reflectivity and    *)
(* surface_finish equal to the surface description.                        *)
C10_ListingsMatchTables ==
    /\ Returned("list_available_colorants") =>
          /\ DOMAIN result.value = DictKeys(colorant_profiles)
          /\ \A k \in DOMAIN result.value :
                LET profile == apply_colorant_morphism(PyStr(k)).value
                IN  /\ result.value[k].warmth_score = profile.hue_temperature
                    /\ result.value[k].visual_character = profile.description
    /\ Returned("list_available_fluxes") =>
          /\ DOMAIN result.value = DictKeys(flux_profiles)
          /\ \A k \in DOMAIN result.value :
                LET profile == apply_flux_morphism(PyStr(k)).value
                IN  /\ result.value[k].reflectivity_score = profile[1]
                    /\ result.value[k].surface_finish = profile[2]

----------------------------------------------------------------------------
(* The server tools *)

ToolAnalyzed == Returned("tool_analyze_glaze_formulation") /\ ~result.raised

(* enhance_image_prompt_from_glaze returned its full result *)
Enhanced ==
    /\ Returned("enhance_image_prompt_from_glaze")
    /\ ~result.raised
    /\ "error" \notin DOMAIN result.value

BundleKeys ==
    {"glaze_name", "visual_parameters", "descriptive_qualities",
     "sensory_intention"}

EnhancementKeys ==
    {"original_prompt", "glaze_analysis", "enhancement_text",
     "enhanced_prompt", "usage_note"}

(* C11: the glaze_analysis embedded by enhance_image_prompt_from_glaze is  *)
(* the result of analyze_glaze_formulation(colorant, 10.0, flux_type,      *)
(* atmosphere, cone, runs=False), and original_prompt is base_prompt.      *)
C11_EnhanceEmbedsAnalysis ==
    (Returned("enhance_image_prompt_from_glaze") /\ ~result.raised) =>
        LET a == call.args
            r == analyze_glaze_formulation(a.colorant, PyFloat(100),
                                           a.flux_type, a.atmosphere, a.cone,
                                           FALSE, call.err)
        IN  /\ r.raised <=> "error" \in DOMAIN result.value
            /\ ~r.raised =>
                  /\ result.value.glaze_analysis = r.value
                  /\ result.value.original_prompt = a.base_prompt

C11_Witness ==
    /\ Enhanced
    /\ call.args.base_prompt = PyStr(<<"a bowl", "; ", "a cup">>)
    /\ call.args.colorant.val = k_cobalt
    /\ call.args.atmosphere.val = k_oxidation
    /\ call.args.cone.val = 6
    /\ result.value.original_prompt = PyStr(<<"a bowl", "; ", "a cup">>)
    /\ result.value.glaze_analysis.visual_parameters.saturation = 88
    /\ 10 * result.value.glaze_analysis.visual_parameters.surface_flow
          = 2 * result.value.glaze_analysis.visual_parameters.reflectivity

(* text.split(sep) on a text held as fragments: the pieces between the     *)
(* fragments equal to sep. No fragment of an enhancement_text contains     *)
(* "; " inside it.                                                         *)
RECURSIVE split(_, _)
split(text, sep) ==
    IF \A i \in DOMAIN text : text[i] # sep
    THEN <<text>>
    ELSE LET i == CHOOSE k \in DOMAIN text :
                      text[k] = sep /\ \A j \in 1..(k - 1) : text[j] # sep
         IN  <<SubSeq(text, 1, i - 1)>>
               \o split(SubSeq(text, i + 1, Len(text)), sep)

OpticalClauses ==
    {"dark, concentrated optical quality",
     "bright, transparent, luminous quality",
     "balanced, medium-value optical quality"}
SurfaceClauses ==
    {"glossy mirror-like surface with strong light reflection",
     "matte absorptive surface with diffuse light",
     "satin semi-gloss surface"}
SaturationClauses ==
    {"intensely saturated, vivid coloration",
     "subtly tinted, muted coloration",
     "balanced, clear coloration"}
HueClauses ==
    {"warm-toned, earthy character", "cool-toned, pure character",
     "neutral balanced coloration"}
MaturationClauses ==
    {"fully matured, intentional finish",
     "developing, slightly softer edges"}

(* The first five clauses, in order, and the bracketed suffix *)
ClausesInOrder(pieces) ==
    /\ pieces[1] \in {<<c>> : c \in OpticalClauses}
    /\ pieces[2] \in {<<c>> : c \in SurfaceClauses}
    /\ pieces[3] \in {<<c>> : c \in SaturationClauses}
    /\ pieces[4] \in {<<c>> : c \in HueClauses}
    /\ pieces[5] \in {<<c>> : c \in MaturationClauses}

BracketedSuffix ==
    result.value.enhanced_prompt =
        format(call.args.base_prompt) \o <<" [glaze aesthetic: ">>
            \o result.value.enhancement_text \o <<"]">>

(* C12 as stated: splitting enhancement_text on "; " gives six parts, the  *)
(* six clauses in their order, the sixth being the sensory-feel clause;    *)
(* enhanced_prompt is base_prompt + " [glaze aesthetic: " + text + "]".    *)
C12_SixParts ==
    Enhanced =>
        LET pieces == split(result.value.enhancement_text, "; ")
        IN  /\ Len(pieces) = 6
            /\ ClausesInOrder(pieces)
            /\ pieces[6] = <<"feels ">> \o
                  result.value.glaze_analysis.sensory_intention.feels_like
            /\ BracketedSuffix

(* C12 amended: enhancement_text is the six clauses in their order joined  *)
(* by "; "; the sensory-feel clause is "feels " + feels_like, which holds  *)
(* one "; " itself, so splitting on "; " gives seven parts, the last two   *)
(* being the halves of the sensory-feel clause; enhanced_prompt is         *)
(* base_prompt + " [glaze aesthetic: " + enhancement_text + "]".           *)
C12_SixClausesSevenParts ==
    Enhanced =>
        LET pieces == split(result.value.enhancement_text, "; ")
            feels == result.value.glaze_analysis.sensory_intention.feels_like
        IN  /\ Len(pieces) = 7
            /\ ClausesInOrder(pieces)
            /\ pieces[6] \o <<"; ">> \o pieces[7] = <<"feels ">> \o feels
            /\ result.value.enhancement_text =
                  join("; ", <<pieces[1], pieces[2], pieces[3], pieces[4],
                               pieces[5], <<"feels ">> \o feels>>)
            /\ BracketedSuffix

C12_Witness ==
    /\ Enhanced
    /\ call.args.base_prompt = PyStr(<<"a ceramic vase on a shelf">>)
    /\ result.value.enhancement_text =
          <<"dark, concentrated optical quality", "; ",
            "glossy mirror-like surface with strong light reflection", "; ",
            "intensely saturated, vivid coloration", "; ",
            "cool-toned, pure character", "; ",
            "fully matured, intentional finish", "; ",
            "feels ", "mysterious, concentrated, sultry", "; ",
            "luminous and flowing">>
    /\ result.value.enhanced_prompt[1] = "a ceramic vase on a shelf"

(* The arguments of an enhance call are of the declared types *)
EnhanceWellTyped(x) ==
    /\ x.colorant.type = "str"
    /\ x.flux_type.type = "str"
    /\ x.atmosphere.type = "str"
    /\ IsNumber(x.cone)

(* C13: the tools analyze_glaze_formulation and                            *)
(* enhance_image_prompt_from_glaze never raise: with a non-numeric         *)
(* percentage or cone or a non-string category they return a payload whose *)
(* only key is "error", otherwise the complete result, never a mixture.    *)
C13_ErrorPayload ==
    /\ Returned("tool_analyze_glaze_formulation") =>
          /\ ~result.raised
          /\ DOMAIN result.value =
                IF WellTyped(call.args) THEN BundleKeys ELSE {"error"}
          /\ WellTyped(call.args) =>
                /\ DOMAIN result.value.visual_parameters = VisualParameterNames
                /\ DOMAIN result.value.sensory_intention =
                      {"feels_like", "visual_mood"}
    /\ Returned("enhance_image_prompt_from_glaze") =>
          /\ ~result.raised
          /\ DOMAIN result.value =
                IF EnhanceWellTyped(call.args)
                THEN EnhancementKeys ELSE {"error"}
          /\ EnhanceWellTyped(call.args) =>
                DOMAIN result.value.glaze_analysis = BundleKeys

C13_Witness ==
    /\ Returned("tool_analyze_glaze_formulation")
    /\ call.args.colorant.type = "str"
    /\ call.args.colorant_percentage = PyNone
    /\ IsNumber(call.args.cone)
    /\ result =
          Ok([error |-> <<"unsupported operand type(s) for /: '", "NoneType",
                          "' and 'float'">>])

----------------------------------------------------------------------------
(* Calls that share the processor *)

InFlight(i) == callers[i].pc # "idle"
Done(i) == callers[i].pc = "done"

(* What the call of caller i returns when it is the only call made on a    *)
(* newly constructed processor                                             *)
Alone(i) == analyze(callers[i].args, callers[i].err)

(* Caller i has made a call before the present one *)
CalledBefore(i) == callers[i].last.result # NoResult

(* C14: analyze_glaze_formulation is stateless and deterministic: a call   *)
(* made after earlier calls on the same processor, successful or failing,  *)
(* returns what the first call on a fresh processor returns for the same   *)
(* arguments; repeating the previous call returns the same bundle again,   *)
(* and two callers asking the same get the same.                           *)
C14_Stateless ==
    /\ \A i \in Callers :
          (Done(i) /\ CalledBefore(i)) =>
              /\ callers[i].result = Alone(i)
              /\ (callers[i].last.args = callers[i].args
                    /\ callers[i].last.err = callers[i].err)
                   => callers[i].result = callers[i].last.result
    /\ \A i, j \in Callers :
          (Done(i) /\ Done(j) /\ callers[i].args = callers[j].args
             /\ callers[i].err = callers[j].err)
            => callers[i].result = callers[j].result

C14_Witness ==
    /\ Done(1)
    /\ CalledBefore(1)
    /\ callers[1].last.result.raised
    /\ ~callers[1].result.raised
    /\ callers[1].result = Alone(1)
    /\ callers[1].result.value.visual_parameters.optical_intensity = 85
    /\ CalledBefore(2)
    /\ ~callers[2].last.result.raised
    /\ callers[2].last.args # callers[1].args

(* C15: in any interleaving of the steps of several calls each call        *)
(* returns what it returns when run alone; a step writes only the locals   *)
(* of its own call, which hold the morphism results for its own arguments. *)
C15_NoInterference ==
    \A i \in Callers :
        /\ Done(i) => callers[i].result = Alone(i)
        /\ ~InFlight(i) => frames[i] = EmptyFrame
        /\ InFlight(i) =>
              LET a == callers[i].args
              IN  /\ frames[i].atm \in
                        {NoResult,
                         apply_atmosphere_morphism(a.colorant, a.atmosphere)}
                  /\ frames[i].flx \in
                        {NoResult, apply_flux_morphism(a.flux_type)}
                  /\ frames[i].tmp \in
                        {NoResult, apply_temperature_morphism(a.cone)}
                  /\ frames[i].col \in
                        {NoResult, apply_colorant_morphism(a.colorant)}

C15_Witness ==
    /\ Done(1)
    /\ callers[1].result = Alone(1)
    /\ ~callers[1].result.raised
    /\ callers[2].pc = "blend"
    /\ callers[2].args # callers[1].args
    /\ frames[2].atm # frames[1].atm
    /\ frames[2].flx # frames[1].flx

----------------------------------------------------------------------------
(* The processor's state *)

(* C16: olog is written once, by the constructor, and every operation      *)
(* afterwards (the morphisms, analyze_glaze_formulation, the helper        *)
(* lookups and the five server tools) leaves it as it is.                  *)
C16_OlogWrittenOnce ==
    /\ [](olog = _load_olog(Unloaded))
    /\ [][olog' = olog]_vars

C16_Witness ==
    /\ Returned("enhance_image_prompt_from_glaze")
    /\ Enhanced
    /\ olog.loads = 1
    /\ olog.document = "glazing_olog.yaml"

----------------------------------------------------------------------------
(* Text rules and the blend *)

(* The blended (unrounded) saturation of the call of this state, as a      *)
(* numerator over SatDen                                                   *)
BlendedSaturation ==
    LET a == call.args
    IN  final_saturation(
            _get_colorant_base_saturation(a.colorant.val),
            apply_atmosphere_morphism(a.colorant, a.atmosphere).value[2],
            apply_temperature_morphism(a.cone).value[1],
            a.colorant_percentage.val)

FourRules(intensity, saturation, reflectivity, err) ==
    IF intensity > 70 /\ Gt(saturation, SatDen, 7, err)
    THEN "deep and saturated"
    ELSE IF reflectivity > 80 THEN "luminous and reflective"
    ELSE IF reflectivity < 30 THEN "matte and earthy"
    ELSE "balanced and intentional"

MaturityQualifier(maturation) ==
    IF maturation > 80 THEN "fully developed"
    ELSE IF maturation > 60 THEN "well-matured"
    ELSE "developing"

(* C17: for every input of analyze_glaze_formulation overall_impression is *)
(* the first that applies of: "deep and saturated" (intensity > 7 and      *)
(* saturation > 7), "luminous and reflective" (reflectivity > 8), "matte   *)
(* and earthy" (reflectivity < 3), "balanced and intentional"; then ", "   *)
(* and "fully developed" (maturation > 8), "well-matured" (> 6) or         *)
(* "developing"; the values are the blended ones.                          *)
C17_FourRules ==
    Analyzed =>
        LET a == call.args
            intensity ==
                apply_atmosphere_morphism(a.colorant, a.atmosphere).value[1]
            reflectivity == apply_flux_morphism(a.flux_type).value[1]
            maturation == apply_temperature_morphism(a.cone).value[1]
        IN  result.value.descriptive_qualities.overall_impression =
                <<FourRules(intensity, BlendedSaturation, reflectivity,
                            call.err),
                  ", ", MaturityQualifier(maturation)>>

(* Oxidation with a blended saturation below 5: the lowest intensity there *)
(* is, 4.0, is not below 4, and the four rules decide.                     *)
C17_Witness ==
    /\ Analyzed
    /\ call.args.atmosphere.val = k_oxidation
    /\ result.value.visual_parameters.optical_intensity = 40
    /\ BlendedSaturation < 5 * SatDen
    /\ call.args.flux_type.val = k_alkaline_earth
    /\ result.value.descriptive_qualities.overall_impression =
          <<"matte and earthy", ", ", "well-matured">>

(* C18 as stated: amount_factor lies in [0.3, 1.33] for every              *)
(* colorant_percentage and is constant from 12.0 upward.                   *)
C18_AmountFactorRange ==
    Analyzed =>
        LET pct == call.args.colorant_percentage.val
        IN  /\ 100 * amount_factor(pct) >= 30 * AmountDen
            /\ 100 * amount_factor(pct) <= 133 * AmountDen
            /\ pct >= 120 => amount_factor(pct) = amount_factor(120)

(* C18 amended: amount_factor lies in [0.3, 1.35] for every                *)
(* colorant_percentage >= 0, is 1.35 for every percentage from 12.0        *)
(* upward, and is below 0.3 for a negative percentage.                     *)
C18_AmountFactorNonNegative ==
    Analyzed =>
        LET pct == call.args.colorant_percentage.val
        IN  /\ pct >= 0 =>
                  /\ 100 * amount_factor(pct) >= 30 * AmountDen
                  /\ 100 * amount_factor(pct) <= 135 * AmountDen
            /\ pct >= 120 => 100 * amount_factor(pct) = 135 * AmountDen
            /\ pct < 0 => 100 * amount_factor(pct) < 30 * AmountDen

C18_Witness ==
    /\ Analyzed
    /\ call.args.colorant_percentage.val = 10000
    /\ 100 * amount_factor(call.args.colorant_percentage.val) = 135 * AmountDen
    /\ amount_factor(150) = amount_factor(120)
    /\ 100 * amount_factor(0) = 30 * AmountDen

(* C19: an atmosphere that is none of reduction, oxidation, neutral gives  *)
(* the same seven visual parameters, overall_impression, visual_mood and   *)
(* feels_like as "neutral" with the other arguments equal; an unknown flux *)
(* is the balanced default in surface_texture and is not described         *)
(* otherwise in feels_like.                                                *)
C19_UnknownAsNeutral ==
    /\ (Analyzed /\ lower(call.args.atmosphere.val) \notin KnownAtmospheres)
         => LET n == analyze([call.args EXCEPT !.atmosphere = PyStr(k_neutral)],
                             call.err)
            IN  /\ ~n.raised
                /\ n.value.visual_parameters = result.value.visual_parameters
                /\ n.value.descriptive_qualities.overall_impression =
                      result.value.descriptive_qualities.overall_impression
                /\ n.value.sensory_intention.visual_mood =
                      result.value.sensory_intention.visual_mood
                /\ n.value.sensory_intention.feels_like =
                      result.value.sensory_intention.feels_like
    /\ (Analyzed /\ lower(call.args.flux_type.val) \notin KnownFluxes)
         => /\ result.value.descriptive_qualities.surface_texture = "balanced"
            /\ result.value.sensory_intention.feels_like[3] # "undefined"

(* C20: visual_mood says "highly saturated" exactly when the reported      *)
(* saturation is above 8 and "muted" exactly when it is below 4; the       *)
(* saturation clause of enhance_image_prompt_from_glaze is "intensely      *)
(* saturated, vivid coloration" exactly when the embedded visual_mood says *)
(* "highly saturated".                                                     *)
C20_LabelsAgreeWithNumbers ==
    /\ Analyzed =>
          LET mood == result.value.sensory_intention.visual_mood[3]
              reported == result.value.visual_parameters.saturation
          IN  /\ mood = "highly saturated" <=> reported > 80
              /\ mood = "muted" <=> reported < 40
    /\ Enhanced =>
          LET mood == result.value.glaze_analysis.sensory_intention
                          .visual_mood[3]
              clause == split(result.value.enhancement_text, "; ")[3]
          IN  clause = <<"intensely saturated, vivid coloration">>
                <=> mood = "highly saturated"

----------------------------------------------------------------------------
(* Reachability of the text branches guarded by optical intensity < 4 *)

BrightImpression(r) ==
    /\ ~r.raised
    /\ r.value.descriptive_qualities.overall_impression[1] =
          "bright and delicate"

LightMood(r) ==
    /\ ~r.raised
    /\ r.value.sensory_intention.visual_mood[1] = "light"

BrightClause(r) ==
    /\ ~r.raised
    /\ "error" \notin DOMAIN r.value
    /\ split(r.value.enhancement_text, "; ")[1] =
          <<"bright, transparent, luminous quality">>

(* No result of analyze_glaze_formulation or of                            *)
(* enhance_image_prompt_from_glaze comes from one of the three branches:   *)
(* the only intensities are 8.5, 4.0 and 5.5, and 4.0 < 4 is false.        *)
BrightBranchNeverTaken ==
    /\ Analyzed => ~BrightImpression(result) /\ ~LightMood(result)
    /\ Enhanced => ~BrightClause(result)

(* C21: every text branch is reachable: there are inputs for which         *)
(* overall_impression begins "bright and delicate", inputs for which       *)
(* visual_mood begins "light", and inputs for which                        *)
(* enhance_image_prompt_from_glaze emits the clause "bright, transparent,  *)
(* luminous quality": whenever the processor is idle, some call of         *)
(* analyze_glaze_formulation, respectively of the enhance tool, returns    *)
(* such a result.                                                          *)
C21_BrightBranchesReachable ==
    pc = "idle" =>
        /\ \E f \in Formulations, e \in FloatErr :
              BrightImpression(analyze(f, e))
        /\ \E f \in Formulations, e \in FloatErr : LightMood(analyze(f, e))
        /\ \E x \in Enhancements, e \in FloatErr : BrightClause(enhance(x, e))

============================================================================
